---------------------------- MODULE Spec2Model ----------------------------
(***************************************************************************)
(* The per-frame simulation core of the 2D particle simulator              *)
(* (src/script.js, and its earlier variant src/unnamed/part_000):          *)
(* Particle.update, Particle.startFade, resolveCollision, dominatesColor,  *)
(* the continuous-spawn accumulator and the spatial-hash traversal of      *)
(* animate.                                                                *)
(*                                                                         *)
(* Numbers.  JavaScript numbers are modelled as exact rationals <<n, d>>   *)
(* (d > 0, lowest terms): the model states what the arithmetic of the code *)
(* computes over the reals, and says nothing about IEEE-754 rounding.      *)
(* Math.hypot is exact where the squared distance is the square of a       *)
(* rational; frames and calls whose hypot would be irrational are outside  *)
(* the model (see ExactPair).  A time step dt is a whole number of         *)
(* milliseconds divided by 1000, as animate computes it.                   *)
(*                                                                         *)
(* Colours.  A colour string '#rrggbb' is the sequence of its six hex      *)
(* digits; other strings are other sequences.                              *)
(***************************************************************************)
EXTENDS Integers, Sequences, FiniteSets, TLC

VARIABLES
    particles,          \* the particles array (sequence of Particle records)
    canvas,             \* [width, height]
    spawnRate,          \* particles per second while held
    isPointerDown,
    pointerX,
    pointerY,
    spawnAccumulator,   \* rational
    spawned,            \* observer: number of spawnParticle calls made by the spawn rule
    elapsed,            \* observer: the sum of spawnRate * dt over the held frames
    frames,             \* observer: number of steps taken (bounds the run)
    last                \* observer: what the last step did (per specification)

vars == <<particles, canvas, spawnRate, isPointerDown, pointerX, pointerY,
          spawnAccumulator, spawned, elapsed, frames, last>>

-----------------------------------------------------------------------------
(* Exact rational arithmetic                                               *)

Abs(a) == IF a < 0 THEN -a ELSE a

RECURSIVE Gcd(_, _)
Gcd(a, b) == IF b = 0 THEN a ELSE Gcd(b, a % b)

Norm(n, d) ==
    LET s == IF d < 0 THEN -1 ELSE 1
        g == Gcd(Abs(n), Abs(d))
    IN  <<(s * n) \div g, (s * d) \div g>>

R(i) == <<i, 1>>
Zero == R(0)
One == R(1)

\* The operations cancel common factors before they multiply, which keeps the
\* intermediate values small.
RAdd(a, b) ==
    LET g == Gcd(a[2], b[2])
    IN  Norm(a[1] * (b[2] \div g) + b[1] * (a[2] \div g), (a[2] \div g) * b[2])
RNeg(a) == <<-a[1], a[2]>>
RSub(a, b) == RAdd(a, RNeg(b))
RMul(a, b) ==
    LET g1 == Gcd(Abs(a[1]), b[2])
        g2 == Gcd(Abs(b[1]), a[2])
    IN  Norm((a[1] \div g1) * (b[1] \div g2), (a[2] \div g2) * (b[2] \div g1))
RInv(a) == IF a[1] < 0 THEN <<-a[2], -a[1]>> ELSE <<a[2], a[1]>>
RDiv(a, b) == RMul(a, RInv(b))
RLt(a, b) ==
    LET g == Gcd(a[2], b[2])
    IN  a[1] * (b[2] \div g) < b[1] * (a[2] \div g)
RLe(a, b) == ~RLt(b, a)
RGt(a, b) == RLt(b, a)
RGe(a, b) == RLe(b, a)
\* Math.floor
RFloor(a) == a[1] \div a[2]
\* x | 0 for the values in range here: truncation toward zero
RTrunc(a) == IF a[1] >= 0 THEN a[1] \div a[2] ELSE -((-a[1]) \div a[2])

\* The integer square root of a natural number (largest r with r * r <= n),
\* by bisection; 46340 is the largest integer whose square TLC can hold.
RECURSIVE ISqrtBetween(_, _, _)
ISqrtBetween(n, lo, hi) ==
    IF lo >= hi THEN lo
    ELSE LET mid == (lo + hi + 1) \div 2
         IN  IF mid * mid <= n THEN ISqrtBetween(n, mid, hi)
             ELSE ISqrtBetween(n, lo, mid - 1)
ISqrt(n) == ISqrtBetween(n, 0, IF n < 46340 THEN n ELSE 46340)
IsSquare(n) == ISqrt(n) * ISqrt(n) = n

\* A non-negative rational in lowest terms is the square of a rational exactly
\* when its numerator and denominator are squares.
RIsSquare(a) == a[1] >= 0 /\ IsSquare(a[1]) /\ IsSquare(a[2])
RSqrt(a) == <<ISqrt(a[1]), ISqrt(a[2])>>

\* Math.hypot(dx, dy), exact on the pairs the model admits
Hypot(dx, dy) == RSqrt(RAdd(RMul(dx, dx), RMul(dy, dy)))

-----------------------------------------------------------------------------
(* Palette                                                                 *)

\* COLORS = ['#ff595e', '#ffca3a', '#8ac926', '#1982c4', '#6a4c93']
COLORS == << <<15, 15, 5, 9, 5, 14>>,
             <<15, 15, 12, 10, 3, 10>>,
             <<8, 10, 12, 9, 2, 6>>,
             <<1, 9, 8, 2, 12, 4>>,
             <<6, 10, 4, 12, 9, 3>> >>

COLOR_ORDER == COLORS

\* FADE_TIME = 0.15
FADE_TIME == <<3, 20>>

CELL_SIZE == 32

\* The value undefined of Map.get on a missing key (no index is negative).
Undefined == 0 - 1

\* colorIndexMap.get(c): the 0-based index of c in COLOR_ORDER, or undefined
colorIndexMap(c) ==
    IF \E i \in 1..Len(COLOR_ORDER) : COLOR_ORDER[i] = c
    THEN (CHOOSE i \in 1..Len(COLOR_ORDER) : COLOR_ORDER[i] = c) - 1
    ELSE Undefined

dominatesColorNoWrap(colorA, colorB) ==
    LET idxA == colorIndexMap(colorA)
        idxB == colorIndexMap(colorB)
    IN  IF idxA = Undefined \/ idxB = Undefined THEN FALSE
        ELSE idxB = idxA + 1

dominatesColor(colorA, colorB) ==
    LET idxA == colorIndexMap(colorA)
        idxB == colorIndexMap(colorB)
    IN  IF idxA = Undefined \/ idxB = Undefined THEN FALSE
        ELSE idxB = (idxA + 1) % Len(COLOR_ORDER)

-----------------------------------------------------------------------------
(* Colour strings                                                          *)

\* parseInt(hex.slice(1), 16): the hex digits read as a number (NaN, for no
\* digits, acts as 0 under >> and &)
RECURSIVE HexValue(_)
HexValue(ds) ==
    IF ds = <<>> THEN 0 ELSE 16 * HexValue(SubSeq(ds, 1, Len(ds) - 1)) + ds[Len(ds)]

parseHexColor(hex) ==
    LET num == HexValue(hex)
    IN  <<(num \div 65536) % 256, (num \div 256) % 256, num % 256>>

\* Number.prototype.toString(16): the hex digits of a positive number
RECURSIVE HexDigits(_)
HexDigits(n) == IF n < 16 THEN <<n>> ELSE Append(HexDigits(n \div 16), n % 16)

rgbToHex(r, g, b) == Tail(HexDigits(16777216 + r * 65536 + g * 256 + b))

\* COLOR_RGB[colorStr] || parseHexColor(colorStr): the precomputed triple of a
\* palette colour is parseHexColor of it
getRGB(colorStr) == parseHexColor(colorStr)

-----------------------------------------------------------------------------
(* Particle                                                                *)

\* new Particle(x, y, vx, vy, radius, color)
Particle(x, y, vx, vy, radius, color) ==
    [x |-> x, y |-> y, vx |-> vx, vy |-> vy, radius |-> radius, color |-> color,
     prevColor |-> color, fadeProgress |-> One]

\* One axis of the wall collision of update: <<position, velocity>>
WallNoFlip(pos, vel, radius, size) ==
    IF RLt(RSub(pos, radius), Zero) THEN <<radius, vel>>
    ELSE IF RGt(RAdd(pos, radius), size) THEN <<RSub(size, radius), vel>>
    ELSE <<pos, vel>>

Wall(pos, vel, radius, size) ==
    IF RLt(RSub(pos, radius), Zero) THEN <<radius, RNeg(vel)>>
    ELSE IF RGt(RAdd(pos, radius), size) THEN <<RSub(size, radius), RNeg(vel)>>
    ELSE <<pos, vel>>

\* The fade progression of update
FadeNoClamp(fadeProgress, dt) ==
    IF RLt(fadeProgress, One) THEN RAdd(fadeProgress, RDiv(dt, FADE_TIME))
    ELSE fadeProgress

Fade(fadeProgress, dt) ==
    IF RLt(fadeProgress, One)
    THEN LET f == RAdd(fadeProgress, RDiv(dt, FADE_TIME))
         IN  IF RGt(f, One) THEN One ELSE f
    ELSE fadeProgress

\* Particle.update(dt), with the canvas size it reads
update(p, dt, cv) ==
    LET wx == Wall(RAdd(p.x, RMul(p.vx, dt)), p.vx, p.radius, R(cv.width))
        wy == Wall(RAdd(p.y, RMul(p.vy, dt)), p.vy, p.radius, R(cv.height))
    IN  [p EXCEPT !.x = wx[1], !.vx = wx[2], !.y = wy[1], !.vy = wy[2],
                  !.fadeProgress = Fade(p.fadeProgress, dt)]

\* Particle._blendRGB()
blendRGB(p) ==
    LET c1 == getRGB(p.prevColor)
        c2 == getRGB(p.color)
    IN  [k \in 1..3 |-> RAdd(R(c1[k]), RMul(R(c2[k] - c1[k]), p.fadeProgress))]

\* The fillStyle Particle.draw paints with: the colour string itself when the
\* fade is complete, otherwise an rgb(r,g,b) string of the truncated blend
fill(p) ==
    IF p.fadeProgress = One THEN [hex |-> p.color]
    ELSE [rgb |-> [k \in 1..3 |-> RTrunc(blendRGB(p)[k])]]

\* Particle.startFade(newColor)
startFadeSnap(p, newColor) ==
    IF newColor = p.color /\ p.fadeProgress = One THEN p
    ELSE [p EXCEPT !.prevColor = p.color, !.color = newColor, !.fadeProgress = Zero]

startFade(p, newColor) ==
    IF newColor = p.color /\ p.fadeProgress = One THEN p
    ELSE LET cur == blendRGB(p)
             prev == IF RLt(p.fadeProgress, One)
                     THEN rgbToHex(RTrunc(cur[1]), RTrunc(cur[2]), RTrunc(cur[3]))
                     ELSE p.color
         IN  [p EXCEPT !.prevColor = prev, !.color = newColor, !.fadeProgress = Zero]

-----------------------------------------------------------------------------
(* resolveCollision                                                        *)

\* The squared centre distance dx*dx + dy*dy of p1 and p2
DistSq(p1, p2) ==
    LET dx == RSub(p2.x, p1.x)
        dy == RSub(p2.y, p1.y)
    IN  RAdd(RMul(dx, dx), RMul(dy, dy))

\* How far each particle is pushed along the normal: overlap / 2
PushFull(overlap) == overlap

Push(overlap) == RDiv(overlap, R(2))

\* The normal components after the collision, <<v1nAfter, v2nAfter>>: swapped
KeepNormal(v1n, v2n) == <<v1n, v2n>>

SwapNormal(v1n, v2n) == <<v2n, v1n>>

ApartStrict(p1, p2) ==
    LET minDist == RAdd(p1.radius, p2.radius)
    IN  RGt(DistSq(p1, p2), RMul(minDist, minDist)) \/ DistSq(p1, p2) = Zero

\* The early return: dist >= minDist || dist === 0.  Both sides of the
\* comparison are non-negative, so it is decided on the squares, which also
\* decides it where the distance is irrational.
Apart(p1, p2) ==
    LET minDist == RAdd(p1.radius, p2.radius)
    IN  RGe(DistSq(p1, p2), RMul(minDist, minDist)) \/ DistSq(p1, p2) = Zero

\* The pairs on which resolveCollision stays within the rationals: those it
\* returns from early, and those whose centre distance is rational.
ExactPair(p1, p2) == Apart(p1, p2) \/ RIsSquare(DistSq(p1, p2))

ConversionReversed(p1, p2) ==
    IF p1.color # p2.color
    THEN IF dominatesColor(p1.color, p2.color) THEN <<startFade(p1, p2.color), p2>>
         ELSE IF dominatesColor(p2.color, p1.color) THEN <<p1, startFade(p2, p1.color)>>
         ELSE <<p1, p2>>
    ELSE <<p1, p2>>

\* The colour dominance conversion at the end of resolveCollision
Conversion(p1, p2) ==
    IF p1.color # p2.color
    THEN IF dominatesColor(p1.color, p2.color) THEN <<p1, startFade(p2, p1.color)>>
         ELSE IF dominatesColor(p2.color, p1.color) THEN <<startFade(p1, p2.color), p2>>
         ELSE <<p1, p2>>
    ELSE <<p1, p2>>

\* resolveCollision(p1, p2): the two particles afterwards
resolveCollision(p1, p2) ==
    IF Apart(p1, p2) THEN <<p1, p2>>
    ELSE
    LET dx == RSub(p2.x, p1.x)
        dy == RSub(p2.y, p1.y)
        dist == Hypot(dx, dy)
        minDist == RAdd(p1.radius, p2.radius)
        nx == RDiv(dx, dist)
        ny == RDiv(dy, dist)
        overlap == RSub(minDist, dist)
        half == Push(overlap)
        tx == RNeg(ny)
        ty == nx
        v1n == RAdd(RMul(p1.vx, nx), RMul(p1.vy, ny))
        v1t == RAdd(RMul(p1.vx, tx), RMul(p1.vy, ty))
        v2n == RAdd(RMul(p2.vx, nx), RMul(p2.vy, ny))
        v2t == RAdd(RMul(p2.vx, tx), RMul(p2.vy, ty))
        v1nAfter == SwapNormal(v1n, v2n)[1]
        v2nAfter == SwapNormal(v1n, v2n)[2]
        q1 == [p1 EXCEPT !.x = RSub(p1.x, RMul(nx, half)),
                         !.y = RSub(p1.y, RMul(ny, half)),
                         !.vx = RAdd(RMul(v1nAfter, nx), RMul(v1t, tx)),
                         !.vy = RAdd(RMul(v1nAfter, ny), RMul(v1t, ty))]
        q2 == [p2 EXCEPT !.x = RAdd(p2.x, RMul(nx, half)),
                         !.y = RAdd(p2.y, RMul(ny, half)),
                         !.vx = RAdd(RMul(v2nAfter, nx), RMul(v2t, tx)),
                         !.vy = RAdd(RMul(v2nAfter, ny), RMul(v2t, ty))]
    IN  Conversion(q1, q2)

-----------------------------------------------------------------------------
(* The spatial hash grid of animate                                        *)

DIGITS == <<"0", "1", "2", "3", "4", "5", "6", "7", "8", "9">>

\* String(n) of a non-negative integer: its decimal digits
RECURSIVE DecDigits(_)
DecDigits(n) ==
    IF n < 10 THEN <<DIGITS[n + 1]>> ELSE Append(DecDigits(n \div 10), DIGITS[(n % 10) + 1])

\* `${n}` of an integer
DecStr(n) == IF n < 0 THEN <<"-">> \o DecDigits(-n) ELSE DecDigits(n)

\* getKey(x, y) = `${x},${y}`
getKey(x, y) == DecStr(x) \o <<",">> \o DecStr(y)

DigitVal(c) == (CHOOSE i \in 1..10 : DIGITS[i] = c) - 1

RECURSIVE DigitsVal(_)
DigitsVal(cs) ==
    IF cs = <<>> THEN 0
    ELSE 10 * DigitsVal(SubSeq(cs, 1, Len(cs) - 1)) + DigitVal(cs[Len(cs)])

\* Number(str) of the strings getKey writes
Number(cs) == IF cs[1] = "-" THEN -DigitsVal(Tail(cs)) ELSE DigitsVal(cs)

\* key.split(',').map(Number)
SplitKey(key) ==
    LET c == CHOOSE i \in 1..Len(key) : key[i] = ","
    IN  <<Number(SubSeq(key, 1, c - 1)), Number(SubSeq(key, c + 1, Len(key)))>>

\* The grid Map in insertion order: a sequence of [key, bucket], the bucket
\* being the array of particle indices pushed under that key.
GridHas(grid, key) == \E k \in 1..Len(grid) : grid[k].key = key
GridAt(grid, key) == CHOOSE k \in 1..Len(grid) : grid[k].key = key

\* One iteration of the loop that fills the grid
GridPush(grid, key, i) ==
    IF GridHas(grid, key)
    THEN [grid EXCEPT ![GridAt(grid, key)].bucket = Append(@, i)]
    ELSE Append(grid, [key |-> key, bucket |-> <<i>>])

\* Math.floor(p.x / cellSize), Math.floor(p.y / cellSize)
CellOf(p, cellSize) ==
    <<RFloor(RDiv(p.x, R(cellSize))), RFloor(RDiv(p.y, R(cellSize)))>>

RECURSIVE BuildGridFrom(_, _, _, _)
BuildGridFrom(ps, cellSize, i, grid) ==
    IF i > Len(ps) THEN grid
    ELSE LET c == CellOf(ps[i], cellSize)
         IN  BuildGridFrom(ps, cellSize, i + 1, GridPush(grid, getKey(c[1], c[2]), i))

\* Step 2 of animate
BuildGrid(ps, cellSize) == BuildGridFrom(ps, cellSize, 1, <<>>)

NEIGHBOR_OFFSETS_WithLeft ==
    << <<0, 0>>, <<1, 0>>, <<0, 1>>, <<1, 1>>, <<-1, 1>>, <<-1, 0>> >>

NEIGHBOR_OFFSETS_NoBelowLeft == << <<0, 0>>, <<1, 0>>, <<0, 1>>, <<1, 1>> >>

\* same cell, right, below, below-right, below-left
NEIGHBOR_OFFSETS == << <<0, 0>>, <<1, 0>>, <<0, 1>>, <<1, 1>>, <<-1, 1>> >>

RECURSIVE Concat(_)
Concat(ss) == IF ss = <<>> THEN <<>> ELSE Head(ss) \o Concat(Tail(ss))

\* for a in bucket, for b > a in bucket
SameBucketPairs(bucket) ==
    Concat([a \in 1..Len(bucket) |->
              [k \in 1..(Len(bucket) - a) |-> <<bucket[a], bucket[a + k]>>]])

\* for ia of bucket, for ib of neighborBucket
CrossPairs(bucket, neighborBucket) ==
    Concat([a \in 1..Len(bucket) |->
              [b \in 1..Len(neighborBucket) |-> <<bucket[a], neighborBucket[b]>>]])

\* The pairs one grid entry passes to resolveCollision under one offset
OffsetPairs(grid, k, off) ==
    LET c == SplitKey(grid[k].key)
        neighborKey == getKey(c[1] + off[1], c[2] + off[2])
    IN  IF ~GridHas(grid, neighborKey) THEN <<>>
        ELSE IF GridAt(grid, neighborKey) = k
             THEN SameBucketPairs(grid[k].bucket)
             ELSE CrossPairs(grid[k].bucket, grid[GridAt(grid, neighborKey)].bucket)

\* Step 3 of animate: the (index) pairs passed to resolveCollision, in order
CandidatePairs(grid, offsets) ==
    Concat([k \in 1..Len(grid) |->
              Concat([o \in 1..Len(offsets) |-> OffsetPairs(grid, k, offsets[o])])])

\* The particles after resolveCollision has been called on each pair in turn;
\* exact tells whether every call stayed within the rationals.
RECURSIVE ResolveAll(_, _, _)
ResolveAll(ps, calls, exact) ==
    IF calls = <<>> THEN [ps |-> ps, exact |-> exact]
    ELSE LET i == calls[1][1]
             j == calls[1][2]
         IN  IF ~ExactPair(ps[i], ps[j]) THEN [ps |-> ps, exact |-> FALSE]
             ELSE LET r == resolveCollision(ps[i], ps[j])
                  IN  ResolveAll([ps EXCEPT ![i] = r[1], ![j] = r[2]], Tail(calls), exact)

-----------------------------------------------------------------------------
(* Continuous spawn                                                        *)

RECURSIVE SpawnWhileAbove(_, _)
SpawnWhileAbove(acc, n) ==
    IF RGt(acc, One) THEN SpawnWhileAbove(RSub(acc, One), n + 1) ELSE <<acc, n>>

\* while (spawnAccumulator >= 1) { spawnParticle(...); spawnAccumulator -= 1; }
\* <<accumulator afterwards, number of spawnParticle calls>>
RECURSIVE SpawnWhile(_, _)
SpawnWhile(acc, n) ==
    IF RGe(acc, One) THEN SpawnWhile(RSub(acc, One), n + 1) ELSE <<acc, n>>

\* The continuous-spawn rule of animate for one frame
SpawnRule(down, acc, rate, dt) ==
    IF down THEN SpawnWhile(RAdd(acc, RMul(R(rate), dt)), 0) ELSE <<acc, 0>>

-----------------------------------------------------------------------------
(* Values of the variables a specification does not use                    *)

NoCanvas == [width |-> 0, height |-> 0]
Started == [op |-> "init"]

-----------------------------------------------------------------------------
(* SpecColor: dominatesColor applied to a pair of colour identifiers       *)

InPalette(c) == \E i \in 1..Len(COLORS) : COLORS[i] = c

\* Identifiers that are not palette entries: another well-formed colour, a
\* palette entry cut short, and the empty string
UnknownColors == { <<1, 1, 1, 1, 1, 1>>, <<15, 15, 5, 9, 5>>, <<>> }

ColorArgs == {COLORS[i] : i \in 1..Len(COLORS)} \cup UnknownColors

ColorInit ==
    /\ particles = <<>>
    /\ canvas = NoCanvas
    /\ spawnRate = 0
    /\ isPointerDown = FALSE
    /\ pointerX = 0
    /\ pointerY = 0
    /\ spawnAccumulator = Zero
    /\ spawned = 0
    /\ elapsed = Zero
    /\ frames = 0
    /\ \E a \in ColorArgs, b \in ColorArgs : last = [op |-> "args", a |-> a, b |-> b]

Dominates ==
    /\ last.op = "args"
    /\ last' = [op |-> "dominatesColor", a |-> last.a, b |-> last.b,
                result |-> dominatesColor(last.a, last.b)]
    /\ UNCHANGED <<particles, canvas, spawnRate, isPointerDown, pointerX, pointerY,
                   spawnAccumulator, spawned, elapsed, frames>>

ColorNext == Dominates

SpecColor == ColorInit /\ [][ColorNext]_vars

\* b is the cyclic successor of a in the palette (positions counted from 1)
CyclicSuccessor(a, b) ==
    \E i \in 1..Len(COLORS) :
        /\ COLORS[i] = a
        /\ COLORS[IF i = Len(COLORS) THEN 1 ELSE i + 1] = b

\* C5: dominatesColor(a, b) is true exactly when a and b are palette entries
\* and b is the cyclic successor of a (the last dominates the first); a
\* colour never dominates itself or a non-successor, and an identifier that
\* is not in the palette yields false.
C5_DominatesIsCyclicSuccessor ==
    last.op = "dominatesColor" =>
        /\ last.result \in BOOLEAN
        /\ last.result = (InPalette(last.a) /\ InPalette(last.b)
                          /\ CyclicSuccessor(last.a, last.b))
        /\ (last.a = last.b => last.result = FALSE)
        /\ (~InPalette(last.a) \/ ~InPalette(last.b) => last.result = FALSE)

\* The last palette colour is found to dominate the first.
C5_Witness ==
    /\ last.op = "dominatesColor"
    /\ last.a = COLORS[Len(COLORS)]
    /\ last.b = COLORS[1]
    /\ last.result = TRUE

-----------------------------------------------------------------------------
(* SpecResolve: resolveCollision applied to a pair of particles            *)

\* Largest coordinate offset between the two centres
MaxOffset == 8

\* Offsets of p2 from p1 at which the centre distance is rational
ResolveOffsets ==
    {o \in (-MaxOffset..MaxOffset) \X (-MaxOffset..MaxOffset) :
        IsSquare(o[1] * o[1] + o[2] * o[2])}

ResolveRadii1 == {3, 5}
ResolveRadii2 == {5}
ResolveVelocities1 == { <<10, 0>>, <<48, 64>> }
ResolveVelocities2 == { <<-10, 0>>, <<48, 64>> }
ResolveColors1 == {COLORS[1], COLORS[5]}
ResolveColors2 == {COLORS[i] : i \in 1..Len(COLORS)} \cup { <<1, 1, 1, 1, 1, 1>> }
\* p2 is settled, or half way through a fade from the first palette colour
ResolveFades == {One, <<1, 2>>}

ResolveInit ==
    /\ canvas = NoCanvas
    /\ spawnRate = 0
    /\ isPointerDown = FALSE
    /\ pointerX = 0
    /\ pointerY = 0
    /\ spawnAccumulator = Zero
    /\ spawned = 0
    /\ elapsed = Zero
    /\ frames = 0
    /\ last = Started
    /\ \E o \in ResolveOffsets, r1 \in ResolveRadii1, r2 \in ResolveRadii2,
          v1 \in ResolveVelocities1, v2 \in ResolveVelocities2,
          c1 \in ResolveColors1, c2 \in ResolveColors2, f \in ResolveFades :
          particles =
            << Particle(Zero, Zero, R(v1[1]), R(v1[2]), R(r1), c1),
               [Particle(R(o[1]), R(o[2]), R(v2[1]), R(v2[2]), R(r2), c2)
                  EXCEPT !.prevColor = IF f = One THEN c2 ELSE COLORS[1],
                         !.fadeProgress = f] >>

Resolve ==
    /\ last.op = "init"
    /\ ExactPair(particles[1], particles[2])
    /\ particles' = resolveCollision(particles[1], particles[2])
    /\ last' = [op |-> "resolveCollision", p1 |-> particles[1], p2 |-> particles[2]]
    /\ UNCHANGED <<canvas, spawnRate, isPointerDown, pointerX, pointerY,
                   spawnAccumulator, spawned, elapsed, frames>>

ResolveNext == Resolve

SpecResolve == ResolveInit /\ [][ResolveNext]_vars

\* What the claims about resolveCollision speak of
Before1 == last.p1
Before2 == last.p2
After1 == particles[1]
After2 == particles[2]
MinDistSq(p1, p2) == RMul(RAdd(p1.radius, p2.radius), RAdd(p1.radius, p2.radius))
Coincide(p1, p2) == p1.x = p2.x /\ p1.y = p2.y
\* centre distance < radius1 + radius2, with distinct centres
Overlapping(p1, p2) == RLt(DistSq(p1, p2), MinDistSq(p1, p2)) /\ ~Coincide(p1, p2)
\* v . w and the z component of v x w
Dot(vx, vy, wx, wy) == RAdd(RMul(vx, wx), RMul(vy, wy))
Cross(vx, vy, wx, wy) == RSub(RMul(vx, wy), RMul(vy, wx))
\* The vector from p1's centre to p2's before the call (a multiple of the normal)
NormalX == RSub(Before2.x, Before1.x)
NormalY == RSub(Before2.y, Before1.y)
FadeState(p) == <<p.color, p.prevColor, p.fadeProgress>>
Dominance(a, b) == InPalette(a) /\ InPalette(b) /\ CyclicSuccessor(a, b)

\* C4: for two overlapping particles with distinct centres, resolveCollision
\* leaves the sum of the two velocity vectors unchanged: the components along
\* the contact normal are swapped between the particles, and each particle's
\* component along the tangent is unchanged.
C4_MomentumConserved ==
    (last.op = "resolveCollision" /\ Overlapping(Before1, Before2)) =>
        /\ RAdd(After1.vx, After2.vx) = RAdd(Before1.vx, Before2.vx)
        /\ RAdd(After1.vy, After2.vy) = RAdd(Before1.vy, Before2.vy)
        /\ Dot(After1.vx, After1.vy, NormalX, NormalY)
             = Dot(Before2.vx, Before2.vy, NormalX, NormalY)
        /\ Dot(After2.vx, After2.vy, NormalX, NormalY)
             = Dot(Before1.vx, Before1.vy, NormalX, NormalY)
        /\ Cross(After1.vx, After1.vy, NormalX, NormalY)
             = Cross(Before1.vx, Before1.vy, NormalX, NormalY)
        /\ Cross(After2.vx, After2.vy, NormalX, NormalY)
             = Cross(Before2.vx, Before2.vy, NormalX, NormalY)

\* An oblique collision (normal along (3,4)) that changed both velocities.
C4_Witness ==
    /\ last.op = "resolveCollision"
    /\ Overlapping(Before1, Before2)
    /\ NormalX = R(3) /\ NormalY = R(4)
    /\ Before1.vx = R(10) /\ Before2.vx = R(-10)
    /\ After1.vx # Before1.vx /\ After1.vy # Before1.vy
    /\ After2.vx # Before2.vx

\* The two particles of the scenario: radius 5 at (0,0) and (8,0), velocities
\* (10,0) and (-10,0)
Scenario ==
    /\ Before1.x = Zero /\ Before1.y = Zero /\ Before1.radius = R(5)
    /\ Before1.vx = R(10) /\ Before1.vy = Zero
    /\ Before2.x = R(8) /\ Before2.y = Zero /\ Before2.radius = R(5)
    /\ Before2.vx = R(-10) /\ Before2.vy = Zero

\* C8: one resolveCollision call on two particles of radius 5 at (0,0) and
\* (8,0) with velocities (10,0) and (-10,0) has overlap 2 and yields centres
\* (-1,0) and (9,0) and velocities (-10,0) and (10,0); and for any overlapping
\* pair with distinct centres the two particles are moved by equal and
\* opposite amounts along the line of centres, away from each other, so that
\* the centre distance afterwards is radius1 + radius2.
C8_PushedApartToContact ==
    last.op = "resolveCollision" =>
        /\ Scenario =>
             /\ RSub(RAdd(Before1.radius, Before2.radius), Hypot(NormalX, NormalY)) = R(2)
             /\ After1.x = R(-1) /\ After1.y = Zero
             /\ After2.x = R(9) /\ After2.y = Zero
             /\ After1.vx = R(-10) /\ After1.vy = Zero
             /\ After2.vx = R(10) /\ After2.vy = Zero
        /\ Overlapping(Before1, Before2) =>
             /\ RSub(After1.x, Before1.x) = RNeg(RSub(After2.x, Before2.x))
             /\ RSub(After1.y, Before1.y) = RNeg(RSub(After2.y, Before2.y))
             /\ Cross(RSub(After2.x, After1.x), RSub(After2.y, After1.y),
                      NormalX, NormalY) = Zero
             /\ RGt(Dot(RSub(After2.x, Before2.x), RSub(After2.y, Before2.y),
                        NormalX, NormalY), Zero)
             /\ DistSq(After1, After2) = MinDistSq(Before1, Before2)

\* The scenario has been resolved.
C8_Witness ==
    /\ last.op = "resolveCollision"
    /\ Scenario
    /\ After1.x = R(-1)
    /\ After2.x = R(9)

\* C9: when resolveCollision handles an overlapping pair whose colours
\* differ, then if p1's colour dominates p2's only p2 starts a fade toward
\* p1's colour; else if p2's colour dominates p1's only p1 starts a fade
\* toward p2's colour; if neither dominates, neither particle's colour or
\* fade state changes.  When the colours are equal no fade is started.  At
\* most one particle of the pair changes colour.
C9_ColourConversion ==
    (last.op = "resolveCollision" /\ Overlapping(Before1, Before2)) =>
        /\ (Before1.color # Before2.color
              /\ Dominance(Before1.color, Before2.color)) =>
             /\ After2.color = Before1.color
             /\ After2.fadeProgress = Zero
             /\ FadeState(After1) = FadeState(Before1)
        /\ (Before1.color # Before2.color
              /\ ~Dominance(Before1.color, Before2.color)
              /\ Dominance(Before2.color, Before1.color)) =>
             /\ After1.color = Before2.color
             /\ After1.fadeProgress = Zero
             /\ FadeState(After2) = FadeState(Before2)
        /\ (~Dominance(Before1.color, Before2.color)
              /\ ~Dominance(Before2.color, Before1.color)) =>
             /\ FadeState(After1) = FadeState(Before1)
             /\ FadeState(After2) = FadeState(Before2)
        /\ Before1.color = Before2.color =>
             /\ FadeState(After1) = FadeState(Before1)
             /\ FadeState(After2) = FadeState(Before2)
        /\ ~(After1.color # Before1.color /\ After2.color # Before2.color)

\* The last palette colour, on p2, has overridden the first, on p1, and p2,
\* which was fading, is untouched.
C9_Witness ==
    /\ last.op = "resolveCollision"
    /\ Overlapping(Before1, Before2)
    /\ Before1.color = COLORS[1]
    /\ Before2.color = COLORS[Len(COLORS)]
    /\ Before2.fadeProgress # One
    /\ After1.color = COLORS[Len(COLORS)]
    /\ After1.prevColor = COLORS[1]
    /\ After1.fadeProgress = Zero
    /\ After2 = [Before2 EXCEPT !.x = After2.x, !.y = After2.y,
                                !.vx = After2.vx, !.vy = After2.vy]

\* C10: resolveCollision changes nothing (position, velocity, colour,
\* prevColor and fadeProgress of both particles) when the centre distance is
\* >= radius1 + radius2 or when the centres coincide, even if the colours
\* differ.
C10_NoEffectWhenApartOrCoincident ==
    (last.op = "resolveCollision"
       /\ (RGe(DistSq(Before1, Before2), MinDistSq(Before1, Before2))
             \/ Coincide(Before1, Before2))) =>
        /\ After1 = Before1
        /\ After2 = Before2

\* A coincident pair whose colours would convert has been passed and left alone.
C10_Witness ==
    /\ last.op = "resolveCollision"
    /\ Coincide(Before1, Before2)
    /\ Dominance(Before1.color, Before2.color)
    /\ After1 = Before1
    /\ After2 = Before2

\* A pair exactly in contact has been passed and left alone.
C10_WitnessTouching ==
    /\ last.op = "resolveCollision"
    /\ DistSq(Before1, Before2) = MinDistSq(Before1, Before2)
    /\ Before1.color # Before2.color
    /\ After1 = Before1
    /\ After2 = Before2

-----------------------------------------------------------------------------
(* SpecFade: startFade and update called on one particle                   *)

\* Number of calls made on the particle
MaxFadeSteps == 4

\* dt = (now - lastTime) / 1000 of a frame that took ms milliseconds
Dt(ms) == Norm(ms, 1000)

FadeCanvas == [width |-> 64, height |-> 64]
FadeDts == {0, 50, 100, 160}
FadeColors == {COLORS[1], COLORS[2], COLORS[3]}

FadeInit ==
    /\ particles = << Particle(R(32), R(32), R(48), R(64), R(5), COLORS[1]) >>
    /\ canvas = FadeCanvas
    /\ spawnRate = 0
    /\ isPointerDown = FALSE
    /\ pointerX = 0
    /\ pointerY = 0
    /\ spawnAccumulator = Zero
    /\ spawned = 0
    /\ elapsed = Zero
    /\ frames = 0
    /\ last = [op |-> "init", fading |-> FALSE, target |-> COLORS[1],
               before |-> particles[1]]

\* p.startFade(newColor); elapsed restarts
FadeStart(newColor) ==
    /\ frames < MaxFadeSteps
    /\ particles' = << startFade(particles[1], newColor) >>
    /\ elapsed' = Zero
    /\ frames' = frames + 1
    /\ last' = [op |-> "startFade", fading |-> TRUE, target |-> newColor,
                before |-> particles[1]]
    /\ UNCHANGED <<canvas, spawnRate, isPointerDown, pointerX, pointerY,
                   spawnAccumulator, spawned>>

\* p.update(dt)
FadeUpdate(ms) ==
    /\ frames < MaxFadeSteps
    /\ particles' = << update(particles[1], Dt(ms), canvas) >>
    /\ elapsed' = RAdd(elapsed, Dt(ms))
    /\ frames' = frames + 1
    /\ last' = [last EXCEPT !.op = "update", !.before = particles[1]]
    /\ UNCHANGED <<canvas, spawnRate, isPointerDown, pointerX, pointerY,
                   spawnAccumulator, spawned>>

FadeNext ==
    \/ \E c \in FadeColors : FadeStart(c)
    \/ \E ms \in FadeDts : FadeUpdate(ms)

SpecFade == FadeInit /\ [][FadeNext]_vars

\* C6: after startFade(newColor), once update has been called with
\* non-negative dt totalling at least FADE_TIME and no further startFade, the
\* particle has fadeProgress = 1 exactly and is drawn in exactly newColor;
\* fadeProgress never exceeds 1, and an update never decreases it.
C6_FadeCompletes ==
    /\ (last.fading /\ RGe(elapsed, FADE_TIME)) =>
         /\ particles[1].fadeProgress = One
         /\ fill(particles[1]) = [hex |-> last.target]
    /\ RLe(particles[1].fadeProgress, One)
    /\ last.op = "update" =>
         RGe(particles[1].fadeProgress, last.before.fadeProgress)

\* A fade to another colour has just been completed by the third of three
\* updates, none of which alone lasted FADE_TIME.
C6_Witness ==
    /\ last.fading
    /\ last.op = "update"
    /\ frames = 4
    /\ RGe(elapsed, FADE_TIME)
    /\ RLt(Zero, last.before.fadeProgress)
    /\ RLt(last.before.fadeProgress, One)
    /\ last.target = COLORS[2]
    /\ particles[1].prevColor = COLORS[1]
    /\ particles[1].fadeProgress = One
    /\ fill(particles[1]) = [hex |-> COLORS[2]]

\* Channel k of the linear interpolation between the colours prev and cur at
\* parameter t
Lerp(prev, cur, t, k) ==
    RAdd(R(parseHexColor(prev)[k]),
         RMul(R(parseHexColor(cur)[k] - parseHexColor(prev)[k]), t))

\* The colour string str denotes the whole-number part of the interpolation
\* between prev and cur at t, channel by channel
IsInterpolated(str, prev, cur, t) ==
    /\ Len(str) = 6
    /\ \A k \in 1..3 :
         /\ RLe(R(parseHexColor(str)[k]), Lerp(prev, cur, t, k))
         /\ RLt(Lerp(prev, cur, t, k), R(parseHexColor(str)[k] + 1))

\* C11: startFade(newColor) leaves the particle unchanged when newColor is its
\* colour and fadeProgress = 1; in every other case color becomes newColor,
\* fadeProgress becomes 0, and prevColor becomes the old colour if the
\* particle was settled, or the colour interpolated between the old prevColor
\* and the old colour at the old fadeProgress if a fade was in progress.
\* Position, velocity and radius are never changed.
C11_StartFade ==
    last.op = "startFade" =>
        LET b == last.before
            a == particles[1]
        IN  /\ a.x = b.x /\ a.y = b.y /\ a.vx = b.vx /\ a.vy = b.vy
            /\ a.radius = b.radius
            /\ IF last.target = b.color /\ b.fadeProgress = One
               THEN a = b
               ELSE /\ a.color = last.target
                    /\ a.fadeProgress = Zero
                    /\ IF b.fadeProgress = One
                       THEN a.prevColor = b.color
                       ELSE IsInterpolated(a.prevColor, b.prevColor, b.color,
                                           b.fadeProgress)

\* A fade from the first to the second palette colour is a third of the way
\* when a fade to the third colour starts: prevColor becomes '#ff7e52'.
C11_Witness ==
    /\ last.op = "startFade"
    /\ last.before.prevColor = COLORS[1]
    /\ last.before.color = COLORS[2]
    /\ last.before.fadeProgress = <<1, 3>>
    /\ last.target = COLORS[3]
    /\ particles[1].prevColor = <<15, 15, 7, 14, 5, 2>>
    /\ particles[1].color = COLORS[3]
    /\ particles[1].fadeProgress = Zero

-----------------------------------------------------------------------------
(* SpecSpawn: the continuous-spawn rule of animate over a run of frames,   *)
(* with the pointer pressed and released and the rate slider moved         *)

MaxSpawnFrames == 100

SpawnRates == {200, 100}
SpawnDts == {10, 4}

SpawnInit ==
    /\ particles = <<>>
    /\ canvas = NoCanvas
    /\ spawnRate = 200
    /\ isPointerDown = FALSE
    /\ pointerX = 0
    /\ pointerY = 0
    /\ spawnAccumulator = Zero
    /\ spawned = 0
    /\ elapsed = Zero
    /\ frames = 0
    /\ last = [op |-> "init", steady |-> TRUE]

\* pointerdown
SpawnPointerDown ==
    /\ ~isPointerDown
    /\ isPointerDown' = TRUE
    /\ last' = [last EXCEPT !.op = "pointerdown"]
    /\ UNCHANGED <<particles, canvas, spawnRate, pointerX, pointerY,
                   spawnAccumulator, spawned, elapsed, frames>>

\* pointerup, pointercancel
SpawnPointerUp ==
    /\ isPointerDown
    /\ isPointerDown' = FALSE
    /\ last' = [last EXCEPT !.op = "pointerup"]
    /\ UNCHANGED <<particles, canvas, spawnRate, pointerX, pointerY,
                   spawnAccumulator, spawned, elapsed, frames>>

\* input on the rate slider
SpawnRateInput(rate) ==
    /\ rate # spawnRate
    /\ spawnRate' = rate
    /\ last' = [last EXCEPT !.op = "input"]
    /\ UNCHANGED <<particles, canvas, isPointerDown, pointerX, pointerY,
                   spawnAccumulator, spawned, elapsed, frames>>

\* The continuous-spawn rule of one frame of ms milliseconds.  steady records
\* that every frame so far ran with the pointer held at rate 200 and dt 0.01.
SpawnFrame(ms) ==
    /\ frames < MaxSpawnFrames
    /\ LET r == SpawnRule(isPointerDown, spawnAccumulator, spawnRate, Dt(ms))
       IN  /\ spawnAccumulator' = r[1]
           /\ spawned' = spawned + r[2]
    /\ elapsed' = IF isPointerDown THEN RAdd(elapsed, RMul(R(spawnRate), Dt(ms)))
                  ELSE elapsed
    /\ frames' = frames + 1
    /\ last' = [op |-> "animate",
                steady |-> last.steady /\ isPointerDown /\ spawnRate = 200 /\ ms = 10]
    /\ UNCHANGED <<particles, canvas, spawnRate, isPointerDown, pointerX, pointerY>>

SpawnNext ==
    \/ SpawnPointerDown
    \/ SpawnPointerUp
    \/ \E rate \in SpawnRates : SpawnRateInput(rate)
    \/ \E ms \in SpawnDts : SpawnFrame(ms)

SpecSpawn == SpawnInit /\ [][SpawnNext]_vars

\* C7: starting from spawnAccumulator = 0, after any sequence of frames the
\* number of particles spawned by the continuous-spawn rule is the floor of
\* the sum of spawnRate * dt over the frames in which the pointer was held,
\* and the remainder carried in spawnAccumulator is in [0, 1); spawnRate = 200
\* with dt = 0.01 for 100 frames spawns exactly 200 particles.
C7_SpawnCountIsFloor ==
    /\ spawned = RFloor(elapsed)
    /\ spawnAccumulator = RSub(elapsed, R(spawned))
    /\ RLe(Zero, spawnAccumulator)
    /\ RLt(spawnAccumulator, One)
    /\ (last.steady /\ frames = 100) => spawned = 200

\* 100 frames of 10 ms at rate 200 with the pointer held have spawned 200.
C7_Witness ==
    /\ last.steady
    /\ frames = 100
    /\ spawned = 200
    /\ spawnAccumulator = Zero

\* A remainder is being carried between frames.
C7_WitnessRemainder ==
    /\ last.op = "animate"
    /\ spawned = 3
    /\ spawnAccumulator = <<3, 5>>

-----------------------------------------------------------------------------
(* SpecGrid: steps 2 and 3 of animate (grid, traversal, resolution) on the *)
(* particles as the update loop left them                                  *)

MaxGridParticles == 3

\* Centres on both sides of the cell borders at 0 and 32 (a centre left of 0
\* is where update leaves a particle wider than the canvas); the offsets
\* between them are 6, 32 or 38 across and 8 down, so that neighbours across
\* the border at 32 are at the rational distances 6, 8 and 10.
GridXs == {-3, 29, 35}
GridYs == {28, 36}
\* 2 * 6 <= CELL_SIZE < 2 * 20
GridRadii == {6, 20}

GridParticle(x, y, radius) == Particle(R(x), R(y), R(48), R(64), R(radius), COLORS[1])

GridInit ==
    /\ canvas = NoCanvas
    /\ spawnRate = 0
    /\ isPointerDown = FALSE
    /\ pointerX = 0
    /\ pointerY = 0
    /\ spawnAccumulator = Zero
    /\ spawned = 0
    /\ elapsed = Zero
    /\ frames = 0
    /\ last = Started
    /\ \E n \in 2..MaxGridParticles :
         \E xs \in [1..n -> GridXs], ys \in [1..n -> GridYs], rs \in [1..n -> GridRadii] :
            particles = [i \in 1..n |-> GridParticle(xs[i], ys[i], rs[i])]

\* Build the grid, pass every candidate pair to resolveCollision
GridFrame ==
    /\ last.op = "init"
    /\ LET grid == BuildGrid(particles, CELL_SIZE)
           calls == CandidatePairs(grid, NEIGHBOR_OFFSETS)
           r == ResolveAll(particles, calls, TRUE)
       IN  /\ r.exact
           /\ particles' = r.ps
           /\ last' = [op |-> "grid", before |-> particles, calls |-> calls]
    /\ frames' = frames + 1
    /\ UNCHANGED <<canvas, spawnRate, isPointerDown, pointerX, pointerY,
                   spawnAccumulator, spawned, elapsed>>

GridNext == GridFrame

SpecGrid == GridInit /\ [][GridNext]_vars

\* How many times the unordered pair {i, j} was passed to resolveCollision
TimesPassed(calls, i, j) ==
    Cardinality({k \in 1..Len(calls) : calls[k] = <<i, j>> \/ calls[k] = <<j, i>>})

\* The cells of p and q differ by at most 1 on each axis
Neighbours(p, q) ==
    /\ Abs(CellOf(p, CELL_SIZE)[1] - CellOf(q, CELL_SIZE)[1]) <= 1
    /\ Abs(CellOf(p, CELL_SIZE)[2] - CellOf(q, CELL_SIZE)[2]) <= 1

\* C1: in one frame's traversal of the grid built from the positions after
\* integration, every unordered pair of distinct particles whose cells differ
\* by at most 1 on each axis is passed to resolveCollision exactly once, every
\* pair whose cells differ by more on some axis is never passed, and no
\* particle is paired with itself.
C1_NeighbourPairsOnce ==
    last.op = "grid" =>
        /\ \A i, j \in 1..Len(last.before) :
             i < j => TimesPassed(last.calls, i, j)
                        = IF Neighbours(last.before[i], last.before[j]) THEN 1 ELSE 0
        /\ \A k \in 1..Len(last.calls) :
             /\ last.calls[k][1] # last.calls[k][2]
             /\ last.calls[k][1] \in 1..Len(last.before)
             /\ last.calls[k][2] \in 1..Len(last.before)

\* Three particles in three cells: the second is below-left of the first and
\* is passed with it once, the third is two cells from the second and is not
\* passed with it.
C1_Witness ==
    /\ last.op = "grid"
    /\ Len(last.before) = 3
    /\ CellOf(last.before[1], CELL_SIZE) = <<0, 0>>
    /\ CellOf(last.before[2], CELL_SIZE) = <<-1, 1>>
    /\ CellOf(last.before[3], CELL_SIZE) = <<1, 0>>
    /\ TimesPassed(last.calls, 1, 2) = 1
    /\ TimesPassed(last.calls, 1, 3) = 1
    /\ TimesPassed(last.calls, 2, 3) = 0

\* The largest radius among the particles
RadiusAtMost(ps, m) == \A i \in 1..Len(ps) : RLe(ps[i].radius, m)

\* C2: given CELL_SIZE >= 2 x the maximum particle radius, any two particles
\* that overlap (centre distance < radius1 + radius2) when the grid is rebuilt
\* are passed to resolveCollision exactly once in that frame's traversal.
C2_OverlappingPairsPassedOnce ==
    (last.op = "grid" /\ RadiusAtMost(last.before, Norm(CELL_SIZE, 2))) =>
        \A i, j \in 1..Len(last.before) :
            (i < j /\ RLt(DistSq(last.before[i], last.before[j]),
                          MinDistSq(last.before[i], last.before[j])))
                => TimesPassed(last.calls, i, j) = 1

\* Two overlapping particles, the second in the cell below-left of the
\* first's, have been passed once and pushed apart.
C2_Witness ==
    /\ last.op = "grid"
    /\ RadiusAtMost(last.before, Norm(CELL_SIZE, 2))
    /\ CellOf(last.before[1], CELL_SIZE) = <<1, 0>>
    /\ CellOf(last.before[2], CELL_SIZE) = <<0, 1>>
    /\ RLt(DistSq(last.before[1], last.before[2]),
           MinDistSq(last.before[1], last.before[2]))
    /\ TimesPassed(last.calls, 1, 2) = 1
    /\ DistSq(particles[1], particles[2]) = MinDistSq(particles[1], particles[2])

-----------------------------------------------------------------------------
(* Spec: the program.  The initial batch, the pointer and slider events,   *)
(* resizes, and animate frames                                             *)

\* Events and frames handled (counted in frames), particles alive, and the
\* size of the initial batch (the code's PARTICLE_COUNT is 100)
MaxSteps == 3
MaxParticles == 2
InitialBatch == 1

\* window sizes; the narrow one is less than two of the larger radii wide
CanvasSizes == { [width |-> 64, height |-> 64], [width |-> 12, height |-> 64] }
\* where the pointer goes, and where the initial batch lands
PointerXs == {3, 60}
PointerYs == {30}
\* values of the rate slider
RateValues == {200, 100}
\* frame times in milliseconds
FrameTimes == {5, 100}
\* what spawnParticle draws: a radius in [minRadius, maxRadius] = [3, 8], a
\* velocity of a speed in [0.5, 1.5] x BASE_SPEED and a palette colour.  The
\* velocities are along x, which keeps every centre distance rational.
SpawnDraws == { <<3, <<80, 0>>, COLORS[1]>>,
                <<8, <<-80, 0>>, COLORS[2]>>,
                <<8, <<120, 0>>, COLORS[1]>> }

\* spawnParticle(x, y) with the values it drew
spawnParticle(x, y, draw) ==
    Particle(R(x), R(y), R(draw[2][1]), R(draw[2][2]), R(draw[1]), draw[3])

Init ==
    /\ canvas = [width |-> 64, height |-> 64]
    /\ \E xs \in [1..InitialBatch -> PointerXs], ys \in [1..InitialBatch -> PointerYs],
          draws \in [1..InitialBatch -> SpawnDraws] :
          particles = [i \in 1..InitialBatch |-> spawnParticle(xs[i], ys[i], draws[i])]
    /\ spawnRate = 200
    /\ isPointerDown = FALSE
    /\ pointerX = 0
    /\ pointerY = 0
    /\ spawnAccumulator = Zero
    /\ spawned = 0
    /\ elapsed = Zero
    /\ frames = 0
    /\ last = Started

\* resizeCanvas
Resize(size) ==
    /\ frames < MaxSteps
    /\ size # canvas
    /\ canvas' = size
    /\ frames' = frames + 1
    /\ last' = [op |-> "event"]
    /\ UNCHANGED <<particles, spawnRate, isPointerDown, pointerX, pointerY,
                   spawnAccumulator, spawned, elapsed>>

\* pointerdown: isPointerDown = true; updatePointer(e)
PointerDown(x, y) ==
    /\ frames < MaxSteps
    /\ ~isPointerDown
    /\ isPointerDown' = TRUE
    /\ pointerX' = x
    /\ pointerY' = y
    /\ frames' = frames + 1
    /\ last' = [op |-> "event"]
    /\ UNCHANGED <<particles, canvas, spawnRate, spawnAccumulator, spawned, elapsed>>

\* pointermove: if (!isPointerDown) return; updatePointer(e)
PointerMove(x, y) ==
    /\ frames < MaxSteps
    /\ isPointerDown
    /\ <<x, y>> # <<pointerX, pointerY>>
    /\ pointerX' = x
    /\ pointerY' = y
    /\ frames' = frames + 1
    /\ last' = [op |-> "event"]
    /\ UNCHANGED <<particles, canvas, spawnRate, isPointerDown, spawnAccumulator,
                   spawned, elapsed>>

\* pointerup, pointercancel
PointerUp ==
    /\ frames < MaxSteps
    /\ isPointerDown
    /\ isPointerDown' = FALSE
    /\ frames' = frames + 1
    /\ last' = [op |-> "event"]
    /\ UNCHANGED <<particles, canvas, spawnRate, pointerX, pointerY, spawnAccumulator,
                   spawned, elapsed>>

\* input on the rate slider
RateInput(rate) ==
    /\ frames < MaxSteps
    /\ rate # spawnRate
    /\ spawnRate' = rate
    /\ frames' = frames + 1
    /\ last' = [op |-> "event"]
    /\ UNCHANGED <<particles, canvas, isPointerDown, pointerX, pointerY,
                   spawnAccumulator, spawned, elapsed>>

\* animate(now), ms milliseconds after the frame before: the continuous spawn,
\* the update of every particle, the grid, and resolveCollision on every
\* candidate pair.  last keeps the particles as the update loop found them
\* (before) and left them (updated).
Animate(ms) ==
    /\ frames < MaxSteps
    /\ LET dt == Dt(ms)
           sp == SpawnRule(isPointerDown, spawnAccumulator, spawnRate, dt)
       IN  /\ Len(particles) + sp[2] <= MaxParticles
           /\ spawnAccumulator' = sp[1]
           /\ spawned' = spawned + sp[2]
           /\ elapsed' = IF isPointerDown THEN RAdd(elapsed, RMul(R(spawnRate), dt))
                         ELSE elapsed
           /\ \E draws \in [1..sp[2] -> SpawnDraws] :
                LET all == particles \o
                             [k \in 1..sp[2] |-> spawnParticle(pointerX, pointerY, draws[k])]
                    updated == [i \in 1..Len(all) |-> update(all[i], dt, canvas)]
                    calls == CandidatePairs(BuildGrid(updated, CELL_SIZE), NEIGHBOR_OFFSETS)
                    r == ResolveAll(updated, calls, TRUE)
                IN  /\ r.exact
                    /\ particles' = r.ps
                    /\ last' = [op |-> "animate", dt |-> dt, before |-> all,
                                updated |-> updated, calls |-> calls]
    /\ frames' = frames + 1
    /\ UNCHANGED <<canvas, spawnRate, isPointerDown, pointerX, pointerY>>

Next ==
    \/ \E size \in CanvasSizes : Resize(size)
    \/ \E x \in PointerXs, y \in PointerYs : PointerDown(x, y)
    \/ \E x \in PointerXs, y \in PointerYs : PointerMove(x, y)
    \/ PointerUp
    \/ \E rate \in RateValues : RateInput(rate)
    \/ \E ms \in FrameTimes : Animate(ms)

Spec == Init /\ [][Next]_vars

\* One axis of a particle after update: within the walls when the canvas is
\* at least two radii across, and the velocity negated exactly when the
\* integrated position was clamped to a wall.
AxisContained(pos0, vel0, pos1, vel1, radius, size, dt) ==
    LET moved == RAdd(pos0, RMul(vel0, dt))
        clamped == RLt(moved, radius) \/ RGt(moved, RSub(size, radius))
    IN  /\ RLe(RMul(R(2), radius), size) =>
              (RLe(radius, pos1) /\ RLe(pos1, RSub(size, radius)))
        /\ clamped => (vel1 = RNeg(vel0) /\ pos1 \in {radius, RSub(size, radius)})
        /\ ~clamped => (vel1 = vel0 /\ pos1 = moved)

\* C3: for every particle and every frame, immediately after update(dt) the
\* position satisfies radius <= x <= canvas.width - radius and radius <= y <=
\* canvas.height - radius (the canvas being at least 2 x radius wide and
\* high); whenever an axis is clamped to a wall the velocity component of
\* that axis is negated, and otherwise it is unchanged.
C3_WallContainment ==
    last.op = "animate" =>
        \A i \in 1..Len(last.updated) :
            LET b == last.before[i]
                u == last.updated[i]
            IN  /\ AxisContained(b.x, b.vx, u.x, u.vx, b.radius, R(canvas.width), last.dt)
                /\ AxisContained(b.y, b.vy, u.y, u.vy, b.radius, R(canvas.height), last.dt)
                /\ u.radius = b.radius

\* A frame has clamped one particle to the right wall, turning it round, and
\* let another move freely.
C3_Witness ==
    /\ last.op = "animate"
    /\ Len(last.updated) = 2
    /\ \E i, j \in 1..2 :
         /\ last.updated[i].x = RSub(R(canvas.width), last.updated[i].radius)
         /\ last.before[i].x # last.updated[i].x
         /\ last.updated[i].vx = RNeg(last.before[i].vx)
         /\ last.updated[i].vy = last.before[i].vy
         /\ last.updated[j].vx = last.before[j].vx
         /\ last.updated[j].x # last.before[j].x

=============================================================================
